---- MODULE Spec2Model ----
(***************************************************************************)
(* Model of the GitHub CI/CD bot's run-all orchestration                   *)
(* (sqlmesh/integrations/github/cicd/command.py).                          *)
(*                                                                         *)
(* One run of _run_all is a single thread of control.  Its position is pc, *)
(* its local variables are has_required_approval, tests_passed,            *)
(* pr_environment_updated, prod_plan_generated and deployed_to_prod.  The  *)
(* GithubController is the environment: its configuration flags are fixed  *)
(* in Init, the outcome of each of its operations is chosen when the       *)
(* operation is invoked.  `updates` records every update_*_check call of   *)
(* the run and `calls` every other controller operation, in the order the  *)
(* run issued them; a gate shows what its last update reported.            *)
(*                                                                         *)
(* Spec and LiveSpec are one run of run-all; CommandSpec is a single-gate  *)
(* command invoked twice.                                                  *)
(***************************************************************************)
EXTENDS Integers, Sequences, FiniteSets, TLC

VARIABLES
    deploy_command_enabled,    \* controller.deploy_command_enabled
    do_required_approval_check,\* controller.do_required_approval_check
    is_comment_added,          \* controller.is_comment_added
    command,                   \* result of controller.get_command_from_comment()
    pc,                        \* position of the run inside _run_all
    has_required_approval,     \* local of _run_all
    tests_passed,              \* local of _run_all
    pr_environment_updated,    \* local of _run_all
    prod_plan_generated,       \* local of _run_all
    deployed_to_prod,          \* local of _run_all
    updates,                   \* every status update of the run, in order
    calls,                     \* every controller operation invoked, in order
    result,                    \* "running", "returned" or "raised"
    cli,                       \* the command of the github group being run
    invocation,                \* 1 or 2: how often the command was started
    context,                   \* what the controller answers a single command
    first                      \* how the first invocation of the command ended

vars ==
    << deploy_command_enabled, do_required_approval_check, is_comment_added,
       command, pc, has_required_approval, tests_passed,
       pr_environment_updated, prod_plan_generated, deployed_to_prod,
       updates, calls, result, cli, invocation, context, first >>

\* What belongs to a sequence of invocations of one single-gate command.
session ==
    << cli, invocation, context, first >>

config ==
    << deploy_command_enabled, do_required_approval_check, is_comment_added >>

locals ==
    << has_required_approval, tests_passed, pr_environment_updated,
       prod_plan_generated, deployed_to_prod >>

\* Longest plan summary the controller is taken to produce.
MaxSummaryLen ==
    2

-----------------------------------------------------------------------------
(* The vocabulary of the status protocol. *)

Gates ==
    {"Tests", "RequiredApproval", "PREnvironment", "ProdPlanPreview",
     "ProdDeployment"}

\* GithubCheckStatus; "NONE" is a check that never received an update.
Statuses ==
    {"QUEUED", "IN_PROGRESS", "COMPLETED"}

\* GithubCheckConclusion; "NONE" is an update that carries no conclusion.
Conclusions ==
    {"SUCCESS", "NEUTRAL", "FAILURE", "SKIPPED", "ACTION_REQUIRED"}

IsSuccess(c) ==
    c = "SUCCESS"

IsFailure(c) ==
    c = "FAILURE"

IsActionRequired(c) ==
    c = "ACTION_REQUIRED"

\* The three outcomes of classifying a comment.
Commands ==
    {"INVALID", "DEPLOY_PROD", "UNSUPPORTED"}

\* Payload texts attached by _run_all to the updates it issues itself.
TestsFailedPlanSummary ==
    "Unit Test(s) Failed so skipping creating prod plan"

TestsFailedDeployReason ==
    "Unit Test(s) Failed so skipping deploying to production"

NoApprovalReason ==
    "Skipped Deploying to Production because a required approver has not approved"

EnvNotUpdatedReason ==
    "Skipped Deploying to Production because the PR environment was not updated"

PlanNotGeneratedReason ==
    "Skipped Deploying to Production because the production plan could not be generated"

UnknownReason ==
    "Skipped Deploying to Production for an unknown reason"

-----------------------------------------------------------------------------
(* The reporting sink of the controller: update_*_check. *)

Update(gate, status, conclusion, payload) ==
    [gate |-> gate, status |-> status, conclusion |-> conclusion,
     payload |-> payload]

\* The run issues the updates us, in order.
Report(us) ==
    updates' = updates \o us

\* The run invokes the controller operation op, which ends in outcome.
Invoke(op, outcome) ==
    calls' = Append(calls, [op |-> op, outcome |-> outcome])

Invoked(op) ==
    \E i \in 1..Len(calls) : calls[i].op = op

\* The operation op was invoked and ended in outcome.
Ended(op, outcome) ==
    \E i \in 1..Len(calls) : calls[i].op = op /\ calls[i].outcome = outcome

\* The updates a gate received, in order.
GateUpdates(gate) ==
    SelectSeq(updates, LAMBDA u : u.gate = gate)

\* What a gate shows: its last update, or nothing.
Check(gate) ==
    IF GateUpdates(gate) = << >> THEN Update(gate, "NONE", "NONE", "")
    ELSE GateUpdates(gate)[Len(GateUpdates(gate))]

\* The answers of the controller to one single-gate command: the outcome
\* of the runner's operation, the conclusion the controller gives the
\* PREnvironment check, the length of the plan summary, and the outcomes of
\* the two follow-ups of a deployment.
Context(op, conclusion, n, merge, invalidate) ==
    [op |-> op, conclusion |-> conclusion, n |-> n, merge |-> merge,
     invalidate |-> invalidate]

NoContext ==
    Context("NONE", "NONE", 0, "NONE", "NONE")

NoFirst ==
    [conclusion |-> "NONE", result |-> "NONE"]

-----------------------------------------------------------------------------
Init ==
    /\ deploy_command_enabled \in BOOLEAN
    /\ do_required_approval_check \in BOOLEAN
    /\ is_comment_added \in BOOLEAN
    /\ command = "NONE"
    /\ pc = "start"
    /\ has_required_approval = FALSE
    /\ tests_passed = FALSE
    /\ pr_environment_updated = FALSE
    /\ prod_plan_generated = FALSE
    /\ deployed_to_prod = FALSE
    /\ updates = << >>
    /\ calls = << >>
    /\ result = "running"
    /\ cli = "run_all"
    /\ invocation = 1
    /\ context = NoContext
    /\ first = NoFirst

-----------------------------------------------------------------------------
(* Decisions of _run_all, as functions of the values they read. *)

IsAutoDeployingProd(enabled, approvalCheck) ==
    enabled \/ approvalCheck

\* Faulty variant: the comment is read even when commands are not enabled.
ReadsComment_Always(enabled) ==
    TRUE

\* Whether a comment-triggered run reads the comment at all.
ReadsComment(enabled) ==
    enabled

\* Faulty variant: an unsupported command is ignored like an unrelated comment.
CommandGate_SwallowUnsupported(cmd) ==
    IF cmd = "DEPLOY_PROD" THEN "approve" ELSE "return"

\* What the run does with the classified comment.
CommandGate(cmd) ==
    IF cmd = "INVALID" THEN "return"
    ELSE IF cmd = "DEPLOY_PROD" THEN "approve"
    ELSE "raise"

\* Faulty variant: ProdDeployment is queued whether or not the run is
\* auto-deploying.
QueueUpdates_AlwaysDeploy(auto) ==
    << Update("PREnvironment", "QUEUED", "NONE", ""),
       Update("ProdPlanPreview", "QUEUED", "NONE", ""),
       Update("Tests", "QUEUED", "NONE", ""),
       Update("ProdDeployment", "QUEUED", "NONE", "") >>

\* The updates of the queue phase.
QueueUpdates(auto) ==
    << Update("PREnvironment", "QUEUED", "NONE", ""),
       Update("ProdPlanPreview", "QUEUED", "NONE", ""),
       Update("Tests", "QUEUED", "NONE", "") >>
    \o (IF auto THEN << Update("ProdDeployment", "QUEUED", "NONE", "") >>
        ELSE << >>)

\* Faulty variant: failed tests short-circuit before the approval step.
AfterTests_ShortCircuitFirst(passed) ==
    IF passed THEN "approval" ELSE "after_approval"

\* Where the run goes once _run_tests has returned.
AfterTests(passed) ==
    "approval"

\* Faulty variant: a missing approval is reported as a failure.
ApprovalConclusion_FailureWhenDenied(approved) ==
    IF approved THEN "SUCCESS" ELSE "FAILURE"

ApprovalConclusion(approved) ==
    IF approved THEN "SUCCESS" ELSE "NEUTRAL"

\* The conclusion the controller derives for the PREnvironment check when
\* it is completed with TestFailure().
TestFailureConclusion ==
    "FAILURE"

\* Faulty variant: the short circuit leaves the deployment gate queued.
TestsFailedUpdates_NoDeploySkip(auto) ==
    << Update("PREnvironment", "COMPLETED", TestFailureConclusion, "TestFailure"),
       Update("ProdPlanPreview", "COMPLETED", "SKIPPED", TestsFailedPlanSummary) >>

\* The updates of the tests-failed short circuit.
TestsFailedUpdates(auto) ==
    << Update("PREnvironment", "COMPLETED", TestFailureConclusion, "TestFailure"),
       Update("ProdPlanPreview", "COMPLETED", "SKIPPED", TestsFailedPlanSummary) >>
    \o (IF auto
        THEN << Update("ProdDeployment", "COMPLETED", "SKIPPED",
                       TestsFailedDeployReason) >>
        ELSE << >>)

\* Conclusions the controller may give the PREnvironment check when
\* update_pr_environment() returned, and when it raised.
EnvNormalConclusions ==
    {"SUCCESS", "NEUTRAL"}

EnvExceptionConclusions ==
    {"FAILURE", "ACTION_REQUIRED", "SKIPPED", "NEUTRAL"}

EnvUpdatedNormal(c) ==
    c # "NONE" /\ IsSuccess(c)

\* Faulty variant: the exception path asks for success like the normal path.
EnvUpdatedOnException_SuccessOnly(c) ==
    c # "NONE" /\ IsSuccess(c)

EnvUpdatedOnException(c) ==
    c # "NONE" /\ ~IsFailure(c) /\ ~IsActionRequired(c)

\* Faulty variant: the plan is generated whatever the environment update did.
ShouldGenPlan_Always(envUpdated) ==
    TRUE

ShouldGenPlan(envUpdated) ==
    envUpdated

\* bool(plan_summary) for a summary of n characters.
SummaryTruthy(n) ==
    n > 0

\* A plan summary of n characters, as the payload of the update.
SummaryText(n) ==
    IF n = 0 THEN "" ELSE "plan summary"

\* Faulty variant: approval alone starts the deployment.
ShouldDeploy_ApprovalOnly(approved, planGenerated) ==
    approved

ShouldDeploy(approved, planGenerated) ==
    approved /\ planGenerated

\* Faulty variant: the environment is looked at before the approval.
SkipReason_EnvFirst(approved, envUpdated, planGenerated) ==
    IF ~envUpdated THEN EnvNotUpdatedReason
    ELSE IF ~approved THEN NoApprovalReason
    ELSE IF ~planGenerated THEN PlanNotGeneratedReason
    ELSE UnknownReason

\* Faulty variant: the plan-not-generated branch is missing.
SkipReason_NoPlanBranch(approved, envUpdated, planGenerated) ==
    IF ~approved THEN NoApprovalReason
    ELSE IF ~envUpdated THEN EnvNotUpdatedReason
    ELSE UnknownReason

SkipReason(approved, envUpdated, planGenerated) ==
    IF ~approved THEN NoApprovalReason
    ELSE IF ~envUpdated THEN EnvNotUpdatedReason
    ELSE IF ~planGenerated THEN PlanNotGeneratedReason
    ELSE UnknownReason

\* Outcomes of deploy_to_prod, try_merge_pr and try_invalidate_pr_environment
\* as the except clauses of _deploy_production tell them apart.
DeployOutcomes ==
    {"ok", "ConflictingPlanError", "PlanError", "Exception"}

\* try_merge_pr and try_invalidate_pr_environment run inside the same try
\* block: they succeed, fail quietly, or raise.
FollowUpOutcomes ==
    DeployOutcomes \cup {"failed"}

\* Faulty variant: PlanError is caught before its subclass
\* ConflictingPlanError.
DeployErrorUpdate_PlanErrorFirst(exc) ==
    IF exc \in {"PlanError", "ConflictingPlanError"}
    THEN Update("ProdDeployment", "COMPLETED", "ACTION_REQUIRED", "")
    ELSE Update("ProdDeployment", "COMPLETED", "FAILURE", "")

DeployErrorUpdate(exc) ==
    IF exc = "ConflictingPlanError"
    THEN Update("ProdDeployment", "COMPLETED", "SKIPPED", "ConflictingPlanError")
    ELSE IF exc = "PlanError"
    THEN Update("ProdDeployment", "COMPLETED", "ACTION_REQUIRED", "")
    ELSE Update("ProdDeployment", "COMPLETED", "FAILURE", "")

\* Faulty variant: a failed deployment does not fail the run.
VerdictFails_NoDeployTerm(envUpdated, planGenerated, approved, deployed) ==
    \/ ~envUpdated
    \/ ~planGenerated

\* Faulty variant: a run that did not deploy fails, approved or not.
VerdictFails_Undeployed(envUpdated, planGenerated, approved, deployed) ==
    \/ ~envUpdated
    \/ ~planGenerated
    \/ ~deployed

VerdictFails(envUpdated, planGenerated, approved, deployed) ==
    \/ ~envUpdated
    \/ ~planGenerated
    \/ (approved /\ ~deployed)

-----------------------------------------------------------------------------
(* Trigger gating. *)

NotCommentTriggered ==
    /\ pc = "start"
    /\ ~is_comment_added
    /\ pc' = "queue"
    /\ UNCHANGED << session, config, command, locals, updates, calls, result >>

\* A comment event while commands are not enabled: the comment is not read.
CommandsDisabled ==
    /\ pc = "start"
    /\ is_comment_added
    /\ ~ReadsComment(deploy_command_enabled)
    /\ pc' = "done"
    /\ result' = "returned"
    /\ UNCHANGED << session, config, command, locals, updates, calls >>

\* The comment is classified and the run returns, continues or raises.
ClassifyComment ==
    /\ pc = "start"
    /\ is_comment_added
    /\ ReadsComment(deploy_command_enabled)
    /\ \E cmd \in Commands :
        /\ command' = cmd
        /\ Invoke("get_command_from_comment", cmd)
        /\ LET next == CommandGate(cmd) IN
            /\ has_required_approval' = (next = "approve")
            /\ pc' = IF next = "approve" THEN "queue" ELSE "done"
            /\ result' = CASE next = "approve" -> "running"
                           [] next = "return" -> "returned"
                           [] OTHER -> "raised"
    /\ UNCHANGED << session, config, tests_passed, pr_environment_updated,
                    prod_plan_generated, deployed_to_prod, updates >>

-----------------------------------------------------------------------------
(* Queue phase and the Tests gate. *)

QueueChecks ==
    /\ pc = "queue"
    /\ Report(QueueUpdates(IsAutoDeployingProd(deploy_command_enabled,
                                               do_required_approval_check)))
    /\ pc' = "tests_begin"
    /\ UNCHANGED << session, config, command, locals, calls, result >>

\* Faulty variant: the runner forgets to report IN_PROGRESS.
RunTestsBegin_Silent ==
    /\ pc = "tests_begin"
    /\ pc' = "tests_run"
    /\ UNCHANGED << session, config, command, locals, updates, calls, result >>

RunTestsBegin ==
    /\ pc = "tests_begin"
    /\ Report(<< Update("Tests", "IN_PROGRESS", "NONE", "") >>)
    /\ pc' = "tests_run"
    /\ UNCHANGED << session, config, command, locals, calls, result >>

\* controller.run_tests() returns a passing or a failing result, or raises.
RunTestsEnd ==
    /\ pc = "tests_run"
    /\ \E outcome \in {"pass", "fail", "raise"} :
        /\ Invoke("run_tests", outcome)
        /\ Report(<< IF outcome = "raise"
                     THEN Update("Tests", "COMPLETED", "FAILURE", "traceback")
                     ELSE Update("Tests", "COMPLETED", "NEUTRAL", outcome) >>)
        /\ tests_passed' = (outcome = "pass")
        /\ pc' = AfterTests(outcome = "pass")
    /\ UNCHANGED << session, config, command, has_required_approval,
                    pr_environment_updated, prod_plan_generated,
                    deployed_to_prod, result >>

-----------------------------------------------------------------------------
(* Required-approval step. *)

NoApprovalCheck ==
    /\ pc = "approval"
    /\ ~do_required_approval_check
    /\ pc' = "after_approval"
    /\ UNCHANGED << session, config, command, locals, updates, calls, result >>

\* Approval came with the deploy command: the gate is completed as skipped.
ApprovalPreGranted ==
    /\ pc = "approval"
    /\ do_required_approval_check
    /\ has_required_approval
    /\ Report(<< Update("RequiredApproval", "COMPLETED", "SKIPPED", "") >>)
    /\ pc' = "after_approval"
    /\ UNCHANGED << session, config, command, locals, calls, result >>

QueueApproval ==
    /\ pc = "approval"
    /\ do_required_approval_check
    /\ ~has_required_approval
    /\ Report(<< Update("RequiredApproval", "QUEUED", "NONE", "") >>)
    /\ pc' = "approval_begin"
    /\ UNCHANGED << session, config, command, locals, calls, result >>

CheckRequiredApproversBegin ==
    /\ pc = "approval_begin"
    /\ Report(<< Update("RequiredApproval", "IN_PROGRESS", "NONE", "") >>)
    /\ pc' = "approval_check"
    /\ UNCHANGED << session, config, command, locals, calls, result >>

\* controller.has_required_approval is read and the gate completed.
CheckRequiredApproversEnd ==
    /\ pc = "approval_check"
    /\ \E approved \in BOOLEAN :
        /\ Invoke("has_required_approval",
                  IF approved THEN "approved" ELSE "denied")
        /\ Report(<< Update("RequiredApproval", "COMPLETED",
                            ApprovalConclusion(approved), "") >>)
        /\ has_required_approval' = approved
    /\ pc' = "after_approval"
    /\ UNCHANGED << session, config, command, tests_passed, pr_environment_updated,
                    prod_plan_generated, deployed_to_prod, result >>

-----------------------------------------------------------------------------
(* Tests-failed short circuit. *)

TestsFailedShortCircuit ==
    /\ pc = "after_approval"
    /\ ~tests_passed
    /\ Report(TestsFailedUpdates(IsAutoDeployingProd(deploy_command_enabled,
                                                     do_required_approval_check)))
    /\ pc' = "done"
    /\ result' = "raised"
    /\ UNCHANGED << session, config, command, locals, calls >>

-----------------------------------------------------------------------------
(* PREnvironment and ProdPlanPreview gates. *)

UpdatePrEnvironmentBegin ==
    /\ pc = "after_approval"
    /\ tests_passed
    /\ Report(<< Update("PREnvironment", "IN_PROGRESS", "NONE", "") >>)
    /\ pc' = "env_run"
    /\ UNCHANGED << session, config, command, locals, calls, result >>

\* controller.update_pr_environment() returns or raises; the controller
\* picks the conclusion and the runner maps it to its boolean.
UpdatePrEnvironmentEnd ==
    /\ pc = "env_run"
    /\ \/ \E c \in EnvNormalConclusions :
            /\ Invoke("update_pr_environment", "ok")
            /\ Report(<< Update("PREnvironment", "COMPLETED", c, "") >>)
            /\ pr_environment_updated' = EnvUpdatedNormal(c)
       \/ \E c \in EnvExceptionConclusions :
            /\ Invoke("update_pr_environment", "raise")
            /\ Report(<< Update("PREnvironment", "COMPLETED", c, "exception") >>)
            /\ pr_environment_updated' = EnvUpdatedOnException(c)
    /\ pc' = "plan"
    /\ UNCHANGED << session, config, command, has_required_approval, tests_passed,
                    prod_plan_generated, deployed_to_prod, result >>

GenProdPlanBegin ==
    /\ pc = "plan"
    /\ ShouldGenPlan(pr_environment_updated)
    /\ Report(<< Update("ProdPlanPreview", "IN_PROGRESS", "NONE", "") >>)
    /\ pc' = "plan_run"
    /\ UNCHANGED << session, config, command, locals, calls, result >>

\* Faulty variant: an exception of get_plan_summary escapes the runner.
GenProdPlanEnd_Propagates ==
    /\ pc = "plan_run"
    /\ \/ \E n \in 0..MaxSummaryLen :
            /\ Invoke("get_plan_summary", "ok")
            /\ Report(<< Update("ProdPlanPreview", "COMPLETED", "SUCCESS",
                              SummaryText(n)) >>)
            /\ prod_plan_generated' = SummaryTruthy(n)
            /\ pc' = "deploy_decision"
            /\ UNCHANGED result
       \/ /\ Invoke("get_plan_summary", "raise")
          /\ pc' = "done"
          /\ result' = "raised"
          /\ UNCHANGED << updates, prod_plan_generated >>
    /\ UNCHANGED << session, config, command, has_required_approval, tests_passed,
                    pr_environment_updated, deployed_to_prod >>

\* controller.get_plan_summary(controller.prod_plan) returns a summary of
\* some length, or raises.
GenProdPlanEnd ==
    /\ pc = "plan_run"
    /\ \/ \E n \in 0..MaxSummaryLen :
            /\ Invoke("get_plan_summary", "ok")
            /\ Report(<< Update("ProdPlanPreview", "COMPLETED", "SUCCESS",
                              SummaryText(n)) >>)
            /\ prod_plan_generated' = SummaryTruthy(n)
       \/ /\ Invoke("get_plan_summary", "raise")
          /\ Report(<< Update("ProdPlanPreview", "COMPLETED", "FAILURE",
                              "exception") >>)
          /\ prod_plan_generated' = FALSE
    /\ pc' = "deploy_decision"
    /\ UNCHANGED << session, config, command, has_required_approval, tests_passed,
                    pr_environment_updated, deployed_to_prod, result >>

SkipProdPlan ==
    /\ pc = "plan"
    /\ ~ShouldGenPlan(pr_environment_updated)
    /\ Report(<< Update("ProdPlanPreview", "COMPLETED", "SKIPPED", "") >>)
    /\ pc' = "deploy_decision"
    /\ UNCHANGED << session, config, command, locals, calls, result >>

-----------------------------------------------------------------------------
(* Deployment decision and the ProdDeployment gate. *)

DeployProductionBegin ==
    /\ pc = "deploy_decision"
    /\ ShouldDeploy(has_required_approval, prod_plan_generated)
    /\ Report(<< Update("ProdDeployment", "IN_PROGRESS", "NONE", "") >>)
    /\ pc' = "deploy_run"
    /\ UNCHANGED << session, config, command, locals, calls, result >>

\* controller.deploy_to_prod() returns or raises.
DeployToProd ==
    /\ pc = "deploy_run"
    /\ \E outcome \in DeployOutcomes :
        /\ Invoke("deploy_to_prod", outcome)
        /\ IF outcome = "ok"
           THEN /\ Report(<< Update("ProdDeployment", "COMPLETED", "SUCCESS",
                                    "") >>)
                /\ pc' = "merge"
           ELSE /\ Report(<< DeployErrorUpdate(outcome) >>)
                /\ pc' = "verdict"
    /\ UNCHANGED << session, config, command, locals, result >>

\* controller.try_merge_pr(), still inside the try block.
TryMergePr ==
    /\ pc = "merge"
    /\ \E outcome \in FollowUpOutcomes :
        /\ Invoke("try_merge_pr", outcome)
        /\ IF outcome \in {"ok", "failed"}
           THEN /\ pc' = "invalidate"
                /\ UNCHANGED << updates >>
           ELSE /\ Report(<< DeployErrorUpdate(outcome) >>)
                /\ pc' = "verdict"
    /\ UNCHANGED << session, config, command, locals, result >>

\* Faulty variant: try_merge_pr is called a second time in place of
\* try_invalidate_pr_environment.
TryInvalidatePrEnvironment_MergesAgain ==
    /\ pc = "invalidate"
    /\ \E outcome \in FollowUpOutcomes :
        /\ Invoke("try_merge_pr", outcome)
        /\ IF outcome \in {"ok", "failed"}
           THEN /\ deployed_to_prod' = TRUE
                /\ UNCHANGED << updates >>
           ELSE /\ Report(<< DeployErrorUpdate(outcome) >>)
                /\ deployed_to_prod' = FALSE
    /\ pc' = "verdict"
    /\ UNCHANGED << session, config, command, has_required_approval, tests_passed,
                    pr_environment_updated, prod_plan_generated, result >>

\* controller.try_invalidate_pr_environment(), then `return True`.
TryInvalidatePrEnvironment ==
    /\ pc = "invalidate"
    /\ \E outcome \in FollowUpOutcomes :
        /\ Invoke("try_invalidate_pr_environment", outcome)
        /\ IF outcome \in {"ok", "failed"}
           THEN /\ deployed_to_prod' = TRUE
                /\ UNCHANGED << updates >>
           ELSE /\ Report(<< DeployErrorUpdate(outcome) >>)
                /\ deployed_to_prod' = FALSE
    /\ pc' = "verdict"
    /\ UNCHANGED << session, config, command, has_required_approval, tests_passed,
                    pr_environment_updated, prod_plan_generated, result >>

\* The gate was queued but will not run.
SkipDeployment ==
    /\ pc = "deploy_decision"
    /\ ~ShouldDeploy(has_required_approval, prod_plan_generated)
    /\ IsAutoDeployingProd(deploy_command_enabled, do_required_approval_check)
    /\ Report(<< Update("ProdDeployment", "COMPLETED", "SKIPPED",
                        SkipReason(has_required_approval,
                                   pr_environment_updated,
                                   prod_plan_generated)) >>)
    /\ pc' = "verdict"
    /\ UNCHANGED << session, config, command, locals, calls, result >>

\* The gate was never queued and is left alone.
NoDeployment ==
    /\ pc = "deploy_decision"
    /\ ~ShouldDeploy(has_required_approval, prod_plan_generated)
    /\ ~IsAutoDeployingProd(deploy_command_enabled, do_required_approval_check)
    /\ pc' = "verdict"
    /\ UNCHANGED << session, config, command, locals, updates, calls, result >>

-----------------------------------------------------------------------------
(* Verdict. *)

Verdict ==
    /\ pc = "verdict"
    /\ result' = IF VerdictFails(pr_environment_updated, prod_plan_generated,
                                 has_required_approval, deployed_to_prod)
                 THEN "raised" ELSE "returned"
    /\ pc' = "done"
    /\ UNCHANGED << session, config, command, locals, updates, calls >>

Next ==
    \/ NotCommentTriggered
    \/ CommandsDisabled
    \/ ClassifyComment
    \/ QueueChecks
    \/ RunTestsBegin
    \/ RunTestsEnd
    \/ NoApprovalCheck
    \/ ApprovalPreGranted
    \/ QueueApproval
    \/ CheckRequiredApproversBegin
    \/ CheckRequiredApproversEnd
    \/ TestsFailedShortCircuit
    \/ UpdatePrEnvironmentBegin
    \/ UpdatePrEnvironmentEnd
    \/ GenProdPlanBegin
    \/ GenProdPlanEnd
    \/ SkipProdPlan
    \/ DeployProductionBegin
    \/ DeployToProd
    \/ TryMergePr
    \/ TryInvalidatePrEnvironment
    \/ SkipDeployment
    \/ NoDeployment
    \/ Verdict

Spec ==
    Init /\ [][Next]_vars

\* _run_all is sequential code and every controller operation returns or
\* raises: a run that can take a step does take it.
LiveSpec ==
    Init /\ [][Next]_vars /\ WF_vars(Next)

-----------------------------------------------------------------------------
(* The single-gate commands: check_required_approvers, run_tests,          *)
(* update_pr_environment, gen_prod_plan and deploy_production.  Each runs  *)
(* one gate runner against the controller and raises CICDBotError when the *)
(* runner returns false.  A command is invoked, and then invoked once more *)
(* against a controller that answers as it did the first time.             *)

GateCommands ==
    {"check_required_approvers", "run_tests", "update_pr_environment",
     "gen_prod_plan", "deploy_production"}

\* The gate a command reports to.
CommandGate_Of(c) ==
    CASE c = "check_required_approvers" -> "RequiredApproval"
      [] c = "run_tests" -> "Tests"
      [] c = "update_pr_environment" -> "PREnvironment"
      [] c = "gen_prod_plan" -> "ProdPlanPreview"
      [] c = "deploy_production" -> "ProdDeployment"

\* The answers the controller may give each command.
Contexts(c) ==
    CASE c = "check_required_approvers" ->
            {Context(o, "NONE", 0, "NONE", "NONE") : o \in {"approved", "denied"}}
      [] c = "run_tests" ->
            {Context(o, "NONE", 0, "NONE", "NONE") : o \in {"pass", "fail", "raise"}}
      [] c = "update_pr_environment" ->
            {Context("ok", k, 0, "NONE", "NONE") : k \in EnvNormalConclusions}
            \cup {Context("raise", k, 0, "NONE", "NONE") :
                     k \in EnvExceptionConclusions}
      [] c = "gen_prod_plan" ->
            {Context("ok", "NONE", n, "NONE", "NONE") : n \in 0..MaxSummaryLen}
            \cup {Context("raise", "NONE", 0, "NONE", "NONE")}
      [] c = "deploy_production" ->
            {Context(o, "NONE", 0, "NONE", "NONE") : o \in DeployOutcomes \ {"ok"}}
            \cup {Context("ok", "NONE", 0, m, "NONE") :
                     m \in FollowUpOutcomes \ {"ok", "failed"}}
            \cup {Context("ok", "NONE", 0, m, i) :
                     m \in {"ok", "failed"}, i \in FollowUpOutcomes}

Call(op, outcome) ==
    [op |-> op, outcome |-> outcome]

\* What one execution of a runner does: the updates it issues, the
\* controller operations it invokes, and the boolean it returns.
Ran(us, cs, ok) ==
    [updates |-> us, calls |-> cs, ok |-> ok]

CheckRequiredApproversRunner(ctx) ==
    Ran(<< Update("RequiredApproval", "IN_PROGRESS", "NONE", ""),
           Update("RequiredApproval", "COMPLETED",
                  ApprovalConclusion(ctx.op = "approved"), "") >>,
        << Call("has_required_approval", ctx.op) >>,
        ctx.op = "approved")

RunTestsRunner(ctx) ==
    Ran(<< Update("Tests", "IN_PROGRESS", "NONE", ""),
           IF ctx.op = "raise"
           THEN Update("Tests", "COMPLETED", "FAILURE", "traceback")
           ELSE Update("Tests", "COMPLETED", "NEUTRAL", ctx.op) >>,
        << Call("run_tests", ctx.op) >>,
        ctx.op = "pass")

UpdatePrEnvironmentRunner(ctx) ==
    Ran(<< Update("PREnvironment", "IN_PROGRESS", "NONE", ""),
           Update("PREnvironment", "COMPLETED", ctx.conclusion,
                  IF ctx.op = "raise" THEN "exception" ELSE "") >>,
        << Call("update_pr_environment", ctx.op) >>,
        IF ctx.op = "raise" THEN EnvUpdatedOnException(ctx.conclusion)
        ELSE EnvUpdatedNormal(ctx.conclusion))

\* Faulty variant: a plan preview that is already completed is not
\* generated again.
GenProdPlanRunner_OnlyOnce(ctx) ==
    IF Check("ProdPlanPreview").status = "COMPLETED"
    THEN Ran(<< >>, << >>, TRUE)
    ELSE Ran(<< Update("ProdPlanPreview", "IN_PROGRESS", "NONE", ""),
                IF ctx.op = "raise"
                THEN Update("ProdPlanPreview", "COMPLETED", "FAILURE",
                            "exception")
                ELSE Update("ProdPlanPreview", "COMPLETED", "SUCCESS",
                            SummaryText(ctx.n)) >>,
             << Call("get_plan_summary", ctx.op) >>,
             ctx.op = "ok" /\ SummaryTruthy(ctx.n))

GenProdPlanRunner(ctx) ==
    Ran(<< Update("ProdPlanPreview", "IN_PROGRESS", "NONE", ""),
           IF ctx.op = "raise"
           THEN Update("ProdPlanPreview", "COMPLETED", "FAILURE", "exception")
           ELSE Update("ProdPlanPreview", "COMPLETED", "SUCCESS",
                       SummaryText(ctx.n)) >>,
        << Call("get_plan_summary", ctx.op) >>,
        ctx.op = "ok" /\ SummaryTruthy(ctx.n))

DeployProductionRunner(ctx) ==
    LET begin == Update("ProdDeployment", "IN_PROGRESS", "NONE", "")
        success == Update("ProdDeployment", "COMPLETED", "SUCCESS", "")
        deploy == Call("deploy_to_prod", ctx.op)
        merge == Call("try_merge_pr", ctx.merge)
        invalidate == Call("try_invalidate_pr_environment", ctx.invalidate)
    IN  IF ctx.op # "ok"
        THEN Ran(<< begin, DeployErrorUpdate(ctx.op) >>, << deploy >>, FALSE)
        ELSE IF ctx.merge \notin {"ok", "failed"}
        THEN Ran(<< begin, success, DeployErrorUpdate(ctx.merge) >>,
                 << deploy, merge >>, FALSE)
        ELSE IF ctx.invalidate \notin {"ok", "failed"}
        THEN Ran(<< begin, success, DeployErrorUpdate(ctx.invalidate) >>,
                 << deploy, merge, invalidate >>, FALSE)
        ELSE Ran(<< begin, success >>, << deploy, merge, invalidate >>, TRUE)

\* The command c issues the updates `prefix` itself, runs its runner and
\* raises CICDBotError unless the runner returned true.
RunCommand(c, prefix, ran) ==
    /\ pc = "cmd"
    /\ cli = c
    /\ updates' = updates \o prefix \o ran.updates
    /\ calls' = calls \o ran.calls
    /\ result' = IF ran.ok THEN "returned" ELSE "raised"
    /\ first' = IF invocation = 1
                THEN [conclusion |-> Check(CommandGate_Of(c))'.conclusion,
                      result |-> result']
                ELSE first
    /\ pc' = "cmd_done"
    /\ UNCHANGED << config, command, locals, cli, invocation, context >>

CheckRequiredApproversCommand ==
    RunCommand("check_required_approvers", << >>,
               CheckRequiredApproversRunner(context))

RunTestsCommand ==
    RunCommand("run_tests", << >>, RunTestsRunner(context))

UpdatePrEnvironmentCommand ==
    RunCommand("update_pr_environment", << >>,
               UpdatePrEnvironmentRunner(context))

\* gen_prod_plan reports IN_PROGRESS itself before it calls the runner.
GenProdPlanCommand ==
    RunCommand("gen_prod_plan",
               << Update("ProdPlanPreview", "IN_PROGRESS", "NONE", "") >>,
               GenProdPlanRunner(context))

DeployProductionCommand ==
    RunCommand("deploy_production", << >>, DeployProductionRunner(context))

\* The same command is started a second time.
Reinvoke ==
    /\ pc = "cmd_done"
    /\ invocation = 1
    /\ invocation' = 2
    /\ pc' = "cmd"
    /\ result' = "running"
    /\ UNCHANGED << config, command, locals, updates, calls, cli, context,
                    first >>

InitCommand ==
    /\ deploy_command_enabled \in BOOLEAN
    /\ do_required_approval_check \in BOOLEAN
    /\ is_comment_added \in BOOLEAN
    /\ command = "NONE"
    /\ pc = "cmd"
    /\ has_required_approval = FALSE
    /\ tests_passed = FALSE
    /\ pr_environment_updated = FALSE
    /\ prod_plan_generated = FALSE
    /\ deployed_to_prod = FALSE
    /\ updates = << >>
    /\ calls = << >>
    /\ result = "running"
    /\ cli \in GateCommands
    /\ invocation = 1
    /\ context \in Contexts(cli)
    /\ first = NoFirst

NextCommand ==
    \/ CheckRequiredApproversCommand
    \/ RunTestsCommand
    \/ UpdatePrEnvironmentCommand
    \/ GenProdPlanCommand
    \/ DeployProductionCommand
    \/ Reinvoke

CommandSpec ==
    InitCommand /\ [][NextCommand]_vars

TypeOK ==
    /\ pc \in {"start", "queue", "tests_begin", "tests_run", "approval",
               "approval_begin", "approval_check", "after_approval",
               "env_run", "plan", "plan_run", "deploy_decision", "deploy_run",
               "merge", "invalidate", "verdict", "done", "cmd", "cmd_done"}
    /\ cli \in GateCommands \cup {"run_all"}
    /\ invocation \in {1, 2}
    /\ result \in {"running", "returned", "raised"}
    /\ command \in Commands \cup {"NONE"}
    /\ \A i \in 1..Len(updates) :
        /\ updates[i].gate \in Gates
        /\ updates[i].status \in Statuses
        /\ updates[i].conclusion \in Conclusions \cup {"NONE"}
        /\ (updates[i].status = "COMPLETED") <=> (updates[i].conclusion # "NONE")
    /\ (result = "running") <=> (pc \notin {"done", "cmd_done"})

-----------------------------------------------------------------------------
(* Vocabulary of the properties. *)

Done ==
    pc = "done"

AutoDeploying ==
    deploy_command_enabled \/ do_required_approval_check

\* The Tests runner has returned, and what it returned.
TestsRan ==
    Invoked("run_tests")

TestsFailed ==
    TestsRan /\ ~tests_passed

\* Approval was granted by the deploy command before the gates ran.
PreGranted ==
    command = "DEPLOY_PROD"

\* The PREnvironment runner has returned.
EnvRan ==
    Invoked("update_pr_environment")

\* The run is past the deployment decision.
Decided ==
    EnvRan /\ pc \in {"deploy_run", "merge", "invalidate", "verdict", "done"}

\* The deployment runner was entered.
DeploymentRun ==
    pc = "deploy_run" \/ Invoked("deploy_to_prod")

\* The run is past the required-approval step.
PastApproval ==
    TestsRan /\ pc \notin {"approval", "approval_begin", "approval_check"}

Completed(gate, conclusion) ==
    /\ Check(gate).status = "COMPLETED"
    /\ Check(gate).conclusion = conclusion

Untouched(gate) ==
    GateUpdates(gate) = << >>

\* The statuses a gate went through, in order.
StatusesOf(gate) ==
    [i \in 1..Len(GateUpdates(gate)) |-> GateUpdates(gate)[i].status]

\* The controller operations wrapped by the gate runners and their follow-ups.
RunnerOps ==
    {"run_tests", "has_required_approval", "update_pr_environment",
     "get_plan_summary", "deploy_to_prod", "try_merge_pr",
     "try_invalidate_pr_environment"}

NoRunnerOp ==
    \A op \in RunnerOps : ~Invoked(op)

-----------------------------------------------------------------------------
\* C1: a run that passed trigger gating and whose tests passed ends in
\* failure exactly when the environment was not updated, or the plan was not
\* generated, or approval was held and the deployment did not succeed;
\* otherwise it returns.
C1_Verdict ==
    (Done /\ TestsRan /\ tests_passed) =>
        /\ result \in {"raised", "returned"}
        /\ (result = "raised") <=>
              ( \/ ~pr_environment_updated
                \/ ~prod_plan_generated
                \/ (has_required_approval /\ ~deployed_to_prod) )

\* An approved run whose environment and plan succeeded but whose deployment
\* failed, and which therefore raised.
C1_Witness ==
    /\ Done /\ TestsRan /\ tests_passed
    /\ pr_environment_updated /\ prod_plan_generated
    /\ has_required_approval /\ ~deployed_to_prod
    /\ result = "raised"

\* C2: when the Tests runner returns false the run ends in failure with
\* PREnvironment COMPLETED/FAILURE, ProdPlanPreview COMPLETED/SKIPPED and,
\* when auto-deploying, ProdDeployment COMPLETED/SKIPPED; and none of
\* update_pr_environment, get_plan_summary, deploy_to_prod, try_merge_pr or
\* try_invalidate_pr_environment is invoked.
C2_TestsFailed ==
    TestsFailed =>
        /\ \A op \in {"update_pr_environment", "get_plan_summary",
                      "deploy_to_prod", "try_merge_pr",
                      "try_invalidate_pr_environment"} : ~Invoked(op)
        /\ Done =>
            /\ result = "raised"
            /\ Completed("PREnvironment", "FAILURE")
            /\ Completed("ProdPlanPreview", "SKIPPED")
            /\ AutoDeploying => Completed("ProdDeployment", "SKIPPED")

C2_Witness ==
    /\ Done /\ TestsFailed /\ AutoDeploying
    /\ Completed("ProdDeployment", "SKIPPED")
    /\ Check("ProdDeployment").payload = TestsFailedDeployReason

ApprovalDenied ==
    /\ do_required_approval_check
    /\ ~PreGranted
    /\ Invoked("has_required_approval")
    /\ ~has_required_approval

\* C4 (as claimed): tests pass, approval is required, not pre-granted and
\* denied: the verdict is failure and ProdDeployment is completed SKIPPED
\* with the no-required-approval reason, whatever the environment and plan.
C4_DeniedAlwaysFails ==
    (Done /\ tests_passed /\ ApprovalDenied) =>
        /\ result = "raised"
        /\ Completed("ProdDeployment", "SKIPPED")
        /\ Check("ProdDeployment").payload = NoApprovalReason

\* C4 (amended): tests pass, approval is required, not pre-granted and
\* denied: ProdDeployment is completed SKIPPED with the no-required-approval
\* reason, whatever the environment and plan; the verdict is failure exactly
\* when the environment was not updated or the plan was not generated.
C4_DeniedSkipsDeployment ==
    (Done /\ tests_passed /\ ApprovalDenied) =>
        /\ Completed("ProdDeployment", "SKIPPED")
        /\ Check("ProdDeployment").payload = NoApprovalReason
        /\ ~Invoked("deploy_to_prod")
        /\ (result = "raised") <=>
              (~pr_environment_updated \/ ~prod_plan_generated)

\* Approval denied, environment updated, plan generated: the run returns.
C4_Witness ==
    /\ Done /\ tests_passed /\ ApprovalDenied
    /\ pr_environment_updated /\ prod_plan_generated
    /\ Check("ProdDeployment").payload = NoApprovalReason
    /\ result = "returned"

\* C5: past the deployment decision, when ProdDeployment was not run and the
\* run is auto-deploying, ProdDeployment is completed SKIPPED with the reason
\* of the first of: not approved, environment not updated, plan not
\* generated.
C5_SkipReasonPriority ==
    (Decided /\ ~DeploymentRun /\ AutoDeploying) =>
        /\ Completed("ProdDeployment", "SKIPPED")
        /\ StatusesOf("ProdDeployment") = << "QUEUED", "COMPLETED" >>
        /\ Check("ProdDeployment").payload =
              IF ~has_required_approval THEN NoApprovalReason
              ELSE IF ~pr_environment_updated THEN EnvNotUpdatedReason
              ELSE PlanNotGeneratedReason
        /\ ~has_required_approval \/ ~pr_environment_updated
              \/ ~prod_plan_generated

\* Neither approved nor updated: the approval reason wins.
C5_Witness ==
    /\ Decided /\ ~DeploymentRun /\ AutoDeploying
    /\ ~has_required_approval /\ ~pr_environment_updated
    /\ Completed("ProdDeployment", "SKIPPED")
    /\ Check("ProdDeployment").payload = NoApprovalReason

\* C6: a comment-triggered run returns when commands are not enabled or the
\* comment is not a command, raises when the command is unsupported, and in
\* all three cases reports no update and invokes no runner operation; only
\* a deploy command lets it continue, with has_required_approval true.
C6_TriggerGating ==
    is_comment_added =>
        /\ (pc # "start" /\ (~deploy_command_enabled \/ command = "INVALID")) =>
            /\ Done /\ result = "returned"
            /\ updates = << >> /\ NoRunnerOp
        /\ (command = "UNSUPPORTED") =>
            /\ Done /\ result = "raised"
            /\ updates = << >> /\ NoRunnerOp
        /\ (pc \notin {"start", "done"} \/ updates # << >> \/ ~NoRunnerOp) =>
            /\ deploy_command_enabled
            /\ command = "DEPLOY_PROD"
        /\ (pc = "queue") => has_required_approval

C6_Witness ==
    /\ is_comment_added /\ deploy_command_enabled
    /\ command = "UNSUPPORTED"
    /\ Done /\ result = "raised" /\ updates = << >>

\* C7: the ProdDeployment gate has received an update only if the run is
\* auto-deploying; otherwise the deployment runner is never entered and
\* deploy_to_prod is never invoked.
C7_DeploymentOnlyWhenAuto ==
    /\ ~Untouched("ProdDeployment") => AutoDeploying
    /\ ~AutoDeploying =>
        /\ pc \notin {"deploy_run", "merge", "invalidate"}
        /\ ~Invoked("deploy_to_prod")

\* A run that is not auto-deploying gets through every gate and returns.
C7_Witness ==
    /\ Done /\ ~AutoDeploying
    /\ pr_environment_updated /\ prod_plan_generated
    /\ Untouched("ProdDeployment")
    /\ result = "returned"

\* C8: deploy_to_prod is invoked exactly in the runs that reach the
\* deployment decision with approval and a generated plan; when it is
\* invoked, tests passed, the environment was updated and ProdPlanPreview is
\* COMPLETED/SUCCESS; and the run then returns exactly when the deployment
\* runner returned true.
C8_DeployGuard ==
    /\ Decided =>
          (DeploymentRun <=> (has_required_approval /\ prod_plan_generated))
    /\ (pc # "deploy_run") => (DeploymentRun <=> Invoked("deploy_to_prod"))
    /\ DeploymentRun =>
        /\ has_required_approval /\ prod_plan_generated
        /\ tests_passed /\ pr_environment_updated
        /\ Completed("ProdPlanPreview", "SUCCESS")
    /\ (Done /\ Invoked("deploy_to_prod")) =>
          ((result = "returned") <=> deployed_to_prod)

C8_Witness ==
    /\ Done /\ Invoked("deploy_to_prod")
    /\ deployed_to_prod /\ result = "returned"
    /\ Completed("ProdDeployment", "SUCCESS")

\* C9: when the PREnvironment runner returns false, get_plan_summary is
\* never invoked, ProdPlanPreview is completed SKIPPED without having been
\* IN_PROGRESS, prod_plan_generated is false and the run ends in failure.
C9_EnvNotUpdated ==
    (EnvRan /\ ~pr_environment_updated) =>
        /\ ~Invoked("get_plan_summary")
        /\ ~prod_plan_generated
        /\ pc # "plan_run"
        /\ \A i \in 1..Len(updates) :
              updates[i].gate = "ProdPlanPreview"
                  => updates[i].status # "IN_PROGRESS"
        /\ (pc # "plan") =>
            /\ StatusesOf("ProdPlanPreview") = << "QUEUED", "COMPLETED" >>
            /\ Completed("ProdPlanPreview", "SKIPPED")
        /\ Done => result = "raised"

C9_Witness ==
    /\ Done /\ EnvRan /\ ~pr_environment_updated
    /\ Completed("ProdPlanPreview", "SKIPPED")
    /\ result = "raised"

\* C10: without do_required_approval_check the RequiredApproval gate is
\* never updated and has_required_approval never read; with it and a
\* pre-granted approval the gate is completed SKIPPED and the check not
\* read; with it and no pre-granted approval the gate goes QUEUED,
\* IN_PROGRESS, COMPLETED, SUCCESS when approved and NEUTRAL when not, and
\* has_required_approval is the result of the check.
C10_ApprovalStep ==
    /\ ~do_required_approval_check =>
        /\ Untouched("RequiredApproval")
        /\ ~Invoked("has_required_approval")
    /\ (do_required_approval_check /\ PreGranted) =>
        /\ ~Invoked("has_required_approval")
        /\ has_required_approval
        /\ PastApproval =>
            /\ StatusesOf("RequiredApproval") = << "COMPLETED" >>
            /\ Completed("RequiredApproval", "SKIPPED")
    /\ (do_required_approval_check /\ ~PreGranted /\ PastApproval) =>
        /\ Invoked("has_required_approval")
        /\ StatusesOf("RequiredApproval")
             = << "QUEUED", "IN_PROGRESS", "COMPLETED" >>
        /\ has_required_approval => Completed("RequiredApproval", "SUCCESS")
        /\ ~has_required_approval => Completed("RequiredApproval", "NEUTRAL")

C10_Witness ==
    /\ do_required_approval_check /\ ~PreGranted /\ PastApproval
    /\ tests_passed /\ ~has_required_approval
    /\ Completed("RequiredApproval", "NEUTRAL")
    /\ pc = "env_run"

\* deploy_to_prod returned without raising.
DeployReturned ==
    Ended("deploy_to_prod", "ok")

\* C11: once deploy_to_prod has returned without raising, ProdDeployment is
\* COMPLETED/SUCCESS and stays so, the deployment runner returns true and
\* the run returns, whatever try_merge_pr and try_invalidate_pr_environment
\* do afterwards, raising included.
C11_FollowUpsCannotDowngrade ==
    DeployReturned =>
        /\ Completed("ProdDeployment", "SUCCESS")
        /\ (pc \in {"verdict", "done"}) => deployed_to_prod
        /\ Done => result = "returned"

\* C12: each gate is completed at most once: after a COMPLETED update no
\* later update is issued for the same gate.
C12_CompletedAtMostOnce ==
    \A g \in Gates :
        \A i \in 1..Len(GateUpdates(g)) :
            (GateUpdates(g)[i].status = "COMPLETED")
                => (i = Len(GateUpdates(g)))

\* GithubCheckStatus in the order a check run moves through it.
Rank(status) ==
    CASE status = "QUEUED" -> 1
      [] status = "IN_PROGRESS" -> 2
      [] status = "COMPLETED" -> 3

\* The controller operation each gate's runner wraps.
GateOp(gate) ==
    CASE gate = "Tests" -> "run_tests"
      [] gate = "RequiredApproval" -> "has_required_approval"
      [] gate = "PREnvironment" -> "update_pr_environment"
      [] gate = "ProdPlanPreview" -> "get_plan_summary"
      [] gate = "ProdDeployment" -> "deploy_to_prod"

WasInProgress(gate) ==
    \E i \in 1..Len(GateUpdates(gate)) :
        GateUpdates(gate)[i].status = "IN_PROGRESS"

\* C13: the statuses reported for a gate never regress in the order QUEUED,
\* IN_PROGRESS, COMPLETED, and a gate is COMPLETED without having been
\* IN_PROGRESS only if its runner's controller operation was never invoked.
C13_StatusMonotone ==
    \A g \in Gates :
        /\ \A i, j \in 1..Len(GateUpdates(g)) :
              (i < j) => Rank(GateUpdates(g)[i].status)
                            <= Rank(GateUpdates(g)[j].status)
        /\ (Check(g).status = "COMPLETED" /\ ~WasInProgress(g))
              => ~Invoked(GateOp(g))

\* A failed run: Tests went through all three statuses, PREnvironment was
\* completed by the orchestrator straight from QUEUED.
C13_Witness ==
    /\ Done /\ TestsFailed
    /\ StatusesOf("Tests") = << "QUEUED", "IN_PROGRESS", "COMPLETED" >>
    /\ StatusesOf("PREnvironment") = << "QUEUED", "COMPLETED" >>
    /\ ~Invoked("update_pr_environment")

\* The operation of a gate runner raised.
Raised(op) ==
    \E i \in 1..Len(calls) :
        /\ calls[i].op = op
        /\ calls[i].outcome \in {"raise", "ConflictingPlanError", "PlanError",
                                 "Exception"}

\* C14: an exception of run_tests, update_pr_environment, get_plan_summary
\* or deploy_to_prod does not escape its runner: the gate is left COMPLETED
\* with a conclusion, the runner returns its boolean and the run goes on;
\* run-all raises only for an unsupported command, in the tests-failed
\* short circuit and at the final verdict.
C14_FaultBoundary ==
    /\ \A g \in Gates \ {"RequiredApproval"} :
          Invoked(GateOp(g)) =>
              /\ Check(g).status = "COMPLETED"
              /\ Check(g).conclusion \in Conclusions
    /\ Raised("run_tests") => (Completed("Tests", "FAILURE") /\ ~tests_passed)
    /\ Raised("get_plan_summary") =>
          (Completed("ProdPlanPreview", "FAILURE") /\ ~prod_plan_generated)
    /\ Raised("deploy_to_prod") => ~deployed_to_prod
    /\ (pc # "done") => (result = "running")
    /\ (result = "raised") =>
          \/ command = "UNSUPPORTED" /\ ~TestsRan
          \/ TestsFailed /\ Check("PREnvironment").payload = "TestFailure"
          \/ /\ tests_passed /\ Decided
             /\ \/ ~pr_environment_updated
                \/ ~prod_plan_generated
                \/ (has_required_approval /\ ~deployed_to_prod)

\* get_plan_summary raised and the run is at the deployment decision.
C14_Witness ==
    /\ pc = "deploy_decision"
    /\ Raised("get_plan_summary")
    /\ Completed("ProdPlanPreview", "FAILURE")
    /\ result = "running"

\* C15 (as claimed): the PREnvironment runner returns true exactly when the
\* conclusion recorded for the gate is neither FAILURE nor ACTION_REQUIRED,
\* whether update_pr_environment returned or raised.
C15_UpdatedIffNotFailure ==
    EnvRan =>
        (pr_environment_updated <=>
            Check("PREnvironment").conclusion \notin {"FAILURE", "ACTION_REQUIRED"})

\* C15 (amended): when update_pr_environment returned, the runner returns
\* true exactly when the recorded conclusion is SUCCESS; when it raised,
\* exactly when the conclusion is neither FAILURE nor ACTION_REQUIRED.
C15_UpdatedByPath ==
    /\ Ended("update_pr_environment", "ok") =>
          (pr_environment_updated
              <=> Check("PREnvironment").conclusion = "SUCCESS")
    /\ Ended("update_pr_environment", "raise") =>
          (pr_environment_updated <=>
              Check("PREnvironment").conclusion
                  \notin {"FAILURE", "ACTION_REQUIRED"})

\* update_pr_environment raised, the check was concluded SKIPPED and the
\* runner returned true.
C15_Witness ==
    /\ Ended("update_pr_environment", "raise")
    /\ Completed("PREnvironment", "SKIPPED")
    /\ pr_environment_updated
    /\ pc = "plan"

\* C17: when deploy_to_prod raises ConflictingPlanError the gate is
\* completed SKIPPED with the error text as skip reason, for any other
\* PlanError ACTION_REQUIRED, for anything else FAILURE; in all three cases
\* the runner returns false and neither try_merge_pr nor
\* try_invalidate_pr_environment is invoked.
C17_DeployFailureMapping ==
    /\ Ended("deploy_to_prod", "ConflictingPlanError") =>
        /\ Completed("ProdDeployment", "SKIPPED")
        /\ Check("ProdDeployment").payload = "ConflictingPlanError"
    /\ Ended("deploy_to_prod", "PlanError") =>
          Completed("ProdDeployment", "ACTION_REQUIRED")
    /\ Ended("deploy_to_prod", "Exception") =>
          Completed("ProdDeployment", "FAILURE")
    /\ Raised("deploy_to_prod") =>
        /\ ~deployed_to_prod
        /\ pc \in {"verdict", "done"}
        /\ ~Invoked("try_merge_pr")
        /\ ~Invoked("try_invalidate_pr_environment")

C17_Witness ==
    /\ Done
    /\ Ended("deploy_to_prod", "ConflictingPlanError")
    /\ Completed("ProdDeployment", "SKIPPED")
    /\ result = "raised"

\* The order in which _run_all reaches the controller operations.
OpRank(op) ==
    CASE op = "get_command_from_comment" -> 0
      [] op = "run_tests" -> 1
      [] op = "has_required_approval" -> 2
      [] op = "update_pr_environment" -> 3
      [] op = "get_plan_summary" -> 4
      [] op = "deploy_to_prod" -> 5
      [] op = "try_merge_pr" -> 6
      [] op = "try_invalidate_pr_environment" -> 7

\* C18: within one run each controller operation is invoked at most once
\* and in the order run_tests, has_required_approval,
\* update_pr_environment, get_plan_summary, deploy_to_prod, try_merge_pr,
\* try_invalidate_pr_environment; no two gates are IN_PROGRESS together,
\* and while a gate is IN_PROGRESS the gate of every operation invoked
\* before is COMPLETED.
C18_FixedOrder ==
    /\ \A i, j \in 1..Len(calls) :
          (i < j) => OpRank(calls[i].op) < OpRank(calls[j].op)
    /\ \A g, h \in Gates :
          (g # h /\ Check(g).status = "IN_PROGRESS") =>
              /\ Check(h).status # "IN_PROGRESS"
              /\ Invoked(GateOp(h)) => Check(h).status = "COMPLETED"

\* A run that invoked all seven operations.
C18_Witness ==
    /\ Done
    /\ \A op \in RunnerOps : Invoked(op)
    /\ Len(calls) = 7

\* C20: ProdDeployment is never completed with the unknown-reason text; the
\* skip branch is entered only without approval or without a plan.
C20_UnknownReasonUnreachable ==
    /\ \A i \in 1..Len(updates) : updates[i].payload # UnknownReason
    /\ (Decided /\ ~DeploymentRun) =>
          ~(has_required_approval /\ prod_plan_generated)

\* Approved, environment updated, plan not generated: the last named reason.
C20_Witness ==
    /\ Decided /\ ~DeploymentRun
    /\ has_required_approval /\ pr_environment_updated
    /\ ~prod_plan_generated
    /\ Check("ProdDeployment").payload = PlanNotGeneratedReason

\* Every gate that received an update is COMPLETED with a conclusion.
GatesSettled ==
    \A g \in Gates :
        \/ Untouched(g)
        \/ /\ Check(g).status = "COMPLETED"
           /\ Check(g).conclusion \in Conclusions

\* C19: every run terminates, and when it has returned or raised no gate is
\* left QUEUED or IN_PROGRESS.
C19_TerminatesSettled ==
    /\ <>Done
    /\ [](Done => (result \in {"returned", "raised"} /\ GatesSettled))

\* A run that ended with all five gates completed.
C19_Witness ==
    /\ Done
    /\ \A g \in Gates : Check(g).status = "COMPLETED"

\* The command was invoked twice and both invocations have ended.
InvokedTwice ==
    pc = "cmd_done" /\ invocation = 2

====
